---- MODULE Spec2Model ----
(***************************************************************************)
(* Constant product AMM with a .3% swap fee (liquidity_pool/src/contract.rs)*)
(* One pool instance, its contract storage, the token ledgers it talks to   *)
(* and the ledger clock.  Every entry point of LiquidityPoolTrait is one    *)
(* action; an entry point that panics traps the invocation and the host     *)
(* discards everything the invocation wrote.                                *)
(***************************************************************************)
EXTENDS Integers, Sequences, FiniteSets, TLC

\* ------------------------------------------------------------------ bounds
MaxBal == 5        \* tokens of each asset every user starts with
MaxAmt == 2        \* largest amount argument a call is given
MaxTime == 1       \* the ledger clock stops here
MaxSteps == 3      \* calls (the two previews aside) and direct transfers once the pool is initialized
RewardFund == 4    \* reward tokens held by the reward storage account

Users == {"u1", "u2"}
Pool == "pool"
Fund == "reward_storage"
Holders == Users \cup {Pool, Fund}
Addresses == {1, 2}     \* token contract addresses, in their canonical order

\* ------------------------------------------------------------ arithmetic
Abs(x) == IF x < 0 THEN -x ELSE x

\* i128 `/`: the quotient truncated toward zero (callers rule out b = 0)
Quot(a, b) ==
  IF (a >= 0) = (b > 0) THEN Abs(a) \div Abs(b) ELSE -(Abs(a) \div Abs(b))

Min(a, b) == IF a <= b THEN a ELSE b
Max(a, b) == IF a >= b THEN a ELSE b

\* num_integer::Roots::sqrt on a non-negative i128: the floor of the root
Sqrt(n) == CHOOSE r \in 0..n : r * r <= n /\ (r + 1) * (r + 1) > n

\* ----------------------------------------------------------------- state
VARIABLES storage, ledger, now, steps, last

vars == <<storage, ledger, now, steps, last>>

NoUserData == [pool_accumulated |-> 0, last_block |-> 0, to_claim |-> 0]

\* contract storage before initialize: no admin, no keys written
EmptyStorage ==
  [admin |-> "none", token_a |-> 0, token_b |-> 0,
   reserve_a |-> 0, reserve_b |-> 0,
   config |-> [tps |-> 0, expired_at |-> 0],
   pool_data |-> [block |-> 0, accumulated |-> 0, last_time |-> 0],
   user_data |-> [u \in Users |-> NoUserData]]

\* the token ledgers: asset a, asset b, pool shares s, reward token r
InitLedger ==
  [bal |-> [k \in {"a", "b", "s", "r"} |->
              [h \in Holders |->
                 IF k \in {"a", "b"} /\ h \in Users THEN MaxBal
                 ELSE IF k = "r" /\ h = Fund THEN RewardFund
                 ELSE 0]],
   total_shares |-> 0]

\* the world one invocation works on: storage, ledgers, and the calls made so far
World(s, l) == [storage |-> s, ledger |-> l, trace |-> <<>>]

Step(w, name) == [w EXCEPT !.trace = Append(@, name)]

\* the Map<Symbol, i128> get_rewards_info returns, before it is filled
NoInfo ==
  [tps |-> 0, exp_at |-> 0, acc |-> 0, last_time |-> 0, pool_acc |-> 0,
   block |-> 0, usr_block |-> 0, to_claim |-> 0]

NoObs ==
  [reserve_a |-> 0, reserve_b |-> 0, balance_a |-> 0, balance_b |-> 0,
   balance_shares |-> 0, total_shares |-> 0, amount |-> 0, minted |-> 0,
   new_inv_a |-> 0, new_inv_b |-> 0, info |-> NoInfo]

\* an invocation's outcome: the error ("none" on return), the world as the
\* invocation left it, the returned pair and the values it computed on the way
Fail(e, w, o) == [err |-> e, w |-> w, ret |-> <<0, 0>>, obs |-> o]
Done(w, r, o) == [err |-> "none", w |-> w, ret |-> r, obs |-> o]

has_admin(w) == w.storage.admin # "none"

\* ------------------------------------------------------- token ledger
\* Token Ledger capability: a transfer of a negative amount, or of more than
\* the sender holds, fails (and so aborts the enclosing invocation)
can_transfer(w, k, from, amount) ==
  amount >= 0 /\ w.ledger.bal[k][from] >= amount

transfer(w, k, from, to, amount) ==
  IF from = to THEN w
  ELSE [w EXCEPT !.ledger.bal[k][from] = @ - amount,
                 !.ledger.bal[k][to] = @ + amount]

get_balance_a(w) == w.ledger.bal["a"][Pool]
get_balance_b(w) == w.ledger.bal["b"][Pool]
get_balance_shares(w) == w.ledger.bal["s"][Pool]
get_total_shares(w) == w.ledger.total_shares

mint_shares(w, to, amount) ==
  [w EXCEPT !.ledger.bal["s"][to] = @ + amount,
            !.ledger.total_shares = @ + amount,
            !.trace = Append(@, "mint")]

burn_shares(w, amount) ==
  [w EXCEPT !.ledger.bal["s"][Pool] = @ - amount,
            !.ledger.total_shares = @ - amount,
            !.trace = Append(@, "burn")]

\* ------------------------------------------------- reward accrual engine
\* settle(now): elapsed = max(0, min(now, expiration_time) - last_settled_time);
\* when elapsed > 0 the time is consumed and the sequence bumped, and the
\* accumulator grows only while there are shares
update_rewards_data(w, t) ==
  LET config == w.storage.config
      data == w.storage.pool_data
      end == Min(t, config.expired_at)
      elapsed == Max(0, end - data.last_time)
      total == get_total_shares(w)
      grown == IF total > 0
               THEN data.accumulated + Quot(elapsed * config.tps, total)
               ELSE data.accumulated
      settled == IF elapsed > 0
                 THEN [block |-> data.block + 1, accumulated |-> grown,
                       last_time |-> end]
                 ELSE data
  IN [w EXCEPT !.storage.pool_data = settled,
               !.trace = Append(@, "update_rewards_data")]

\* settle_user(user, pool_accumulator, user_share_balance)
update_user_reward(w, user) ==
  LET data == w.storage.pool_data
      rec == w.storage.user_data[user]
      shares == w.ledger.bal["s"][user]
      delta == shares * (data.accumulated - rec.pool_accumulated)
  IN [w EXCEPT !.storage.user_data[user] =
                  [pool_accumulated |-> data.accumulated,
                   last_block |-> data.block,
                   to_claim |-> rec.to_claim + delta],
               !.trace = Append(@, "update_user_reward")]

\* --------------------------------------------------------- issuance engine
\* pool::get_deposit_amounts: the bootstrap case takes the desired amounts;
\* otherwise the pair keeps the ratio reserve_a : reserve_b within
\* [min_x, desired_x]
get_deposit_amounts(desired_a, min_a, desired_b, min_b, reserve_a, reserve_b) ==
  IF reserve_a = 0 /\ reserve_b = 0
  THEN [err |-> "none", a |-> desired_a, b |-> desired_b]
  ELSE IF reserve_a = 0
  THEN [err |-> "DivisionByZero", a |-> 0, b |-> 0]
  ELSE LET amount_b == Quot(desired_a * reserve_b, reserve_a)
       IN IF amount_b <= desired_b
          THEN IF amount_b < min_b
               THEN [err |-> "MinNotSatisfied", a |-> 0, b |-> 0]
               ELSE [err |-> "none", a |-> desired_a, b |-> amount_b]
          ELSE IF reserve_b = 0
          THEN [err |-> "DivisionByZero", a |-> 0, b |-> 0]
          ELSE LET amount_a == Quot(desired_b * reserve_a, reserve_b)
               IN IF amount_a > desired_a \/ amount_a < min_a
                  THEN [err |-> "MinNotSatisfied", a |-> 0, b |-> 0]
                  ELSE [err |-> "none", a |-> amount_a, b |-> desired_b]

\* -------------------------------------------------------------- initialize
\* initialize without its has_admin test
initialize_again(w, admin, token_a, token_b) ==
  IF token_a >= token_b
  THEN Fail("InvalidOrdering", w, NoObs)
  ELSE Done(Step([w EXCEPT
                    !.storage.admin = admin,
                    !.storage.token_a = token_a,
                    !.storage.token_b = token_b,
                    !.storage.reserve_a = 0,
                    !.storage.reserve_b = 0,
                    !.storage.config = [tps |-> 0, expired_at |-> 0],
                    !.storage.pool_data =
                       [block |-> 0, accumulated |-> 0, last_time |-> 0]],
                  "put_storage"),
            <<0, 0>>, NoObs)

initialize(w, admin, token_a, token_b) ==
  IF has_admin(w)
  THEN Fail("AlreadyInitialized", w, NoObs)
  ELSE LET w1 == Step([w EXCEPT !.storage.admin = admin], "set_admin")
       IN IF token_a >= token_b
          THEN Fail("InvalidOrdering", w1, NoObs)
          ELSE Done(Step([w1 EXCEPT
                            !.storage.token_a = token_a,
                            !.storage.token_b = token_b,
                            !.storage.reserve_a = 0,
                            !.storage.reserve_b = 0,
                            !.storage.config = [tps |-> 0, expired_at |-> 0],
                            !.storage.pool_data =
                               [block |-> 0, accumulated |-> 0, last_time |-> 0]],
                          "put_storage"),
                    <<0, 0>>, NoObs)

\* ----------------------------------------------------------------- deposit
\* the reward update left out of deposit
deposit_rewards_skipped(w, t, to) == w

\* "Before actual changes were made to the pool, update total rewards data
\* and refresh/initialize user reward"
deposit_rewards(w, t, to) == update_user_reward(update_rewards_data(w, t), to)

\* the larger of the two proportional estimates taken
new_total_shares_max(balance_a, balance_b, total_shares, reserve_a, reserve_b) ==
  IF reserve_a > 0 /\ reserve_b > 0
  THEN Max(Quot(balance_a * total_shares, reserve_a),
           Quot(balance_b * total_shares, reserve_b))
  ELSE Sqrt(balance_a * balance_b)

\* "Now calculate how many new pool shares to mint"
new_total_shares(balance_a, balance_b, total_shares, reserve_a, reserve_b) ==
  IF reserve_a > 0 /\ reserve_b > 0
  THEN Min(Quot(balance_a * total_shares, reserve_a),
           Quot(balance_b * total_shares, reserve_b))
  ELSE Sqrt(balance_a * balance_b)

\* the reserves moved by what the call itself transferred, the balances unread
put_reserves_by_flow(w, a, b) ==
  [w EXCEPT !.storage.reserve_a = @ + (a - get_balance_a(World(storage, ledger))),
            !.storage.reserve_b = @ + (b - get_balance_b(World(storage, ledger))),
            !.trace = Append(@, "put_reserves")]

put_reserves(w, a, b) ==
  [w EXCEPT !.storage.reserve_a = a, !.storage.reserve_b = b,
            !.trace = Append(@, "put_reserves")]

deposit(w, t, to, desired_a, min_a, desired_b, min_b) ==
  IF ~has_admin(w) THEN Fail("NotInitialized", w, NoObs)
  ELSE
  LET reserve_a == w.storage.reserve_a
      reserve_b == w.storage.reserve_b
      w1 == deposit_rewards(w, t, to)
      amounts == get_deposit_amounts(desired_a, min_a, desired_b, min_b,
                                     reserve_a, reserve_b)
      o1 == [NoObs EXCEPT !.reserve_a = reserve_a, !.reserve_b = reserve_b,
                          !.total_shares = get_total_shares(w1)]
      w2 == Step(w1, "get_deposit_amounts")
  IN IF amounts.err # "none" THEN Fail(amounts.err, w2, o1)
     ELSE
     LET w3 == Step(w2, "transfer_from")
     IN IF ~can_transfer(w3, "a", to, amounts.a) THEN Fail("TokenError", w3, o1)
        ELSE
        LET w4 == Step(transfer(w3, "a", to, Pool, amounts.a), "transfer_from")
        IN IF ~can_transfer(w4, "b", to, amounts.b) THEN Fail("TokenError", w4, o1)
           ELSE
           LET w5 == Step(transfer(w4, "b", to, Pool, amounts.b), "get_balance")
               balance_a == get_balance_a(w5)
               balance_b == get_balance_b(w5)
               total_shares == get_total_shares(w5)
               new_total == new_total_shares(balance_a, balance_b, total_shares,
                                             reserve_a, reserve_b)
               o2 == [o1 EXCEPT !.balance_a = balance_a, !.balance_b = balance_b,
                                !.minted = new_total - total_shares]
           IN IF new_total - total_shares < 0 THEN Fail("TokenError", w5, o2)
              ELSE Done(put_reserves(mint_shares(w5, to, new_total - total_shares),
                                     balance_a, balance_b),
                        <<amounts.a, amounts.b>>, o2)

\* -------------------------------------------------------------------- swap
\* the price taken from the wrong reserve
sell_amount_wrong_reserve(reserve_sell, reserve_buy, out) ==
  LET n == reserve_buy * out * 1000
      d == (reserve_buy - out) * 997
  IN Quot(n, d) + 1

\* the price without its rounding step
sell_amount_floor(reserve_sell, reserve_buy, out) ==
  LET n == reserve_sell * out * 1000
      d == (reserve_buy - out) * 997
  IN Quot(n, d)

\* "First calculate how much needs to be sold to buy amount out from the pool"
\* (the divisor d is not zero here)
sell_amount(reserve_sell, reserve_buy, out) ==
  LET n == reserve_sell * out * 1000
      d == (reserve_buy - out) * 997
  IN Quot(n, d) + 1

new_invariant_factor(balance, reserve, out) ==
  LET delta == balance - reserve - out
      adj_delta == IF delta > 0 THEN 997 * delta ELSE 1000 * delta
  IN 1000 * reserve + adj_delta

\* the check left out
invariant_unchecked(new_inv_a, new_inv_b, old_inv_a, old_inv_b) == TRUE

\* the constant product check: TRUE when the swap may go on
invariant_holds(new_inv_a, new_inv_b, old_inv_a, old_inv_b) ==
  ~(new_inv_a * new_inv_b < old_inv_a * old_inv_b)

\* the bound left out
over_max_unchecked(sell, in_max) == FALSE

\* "in amount is over max"
over_max(sell, in_max) == sell > in_max

\* the purchase handed over without the sale
swap_unpaid(w, to, buy_a, out, in_max) ==
  LET buy_token == IF buy_a THEN "a" ELSE "b"
      out_a == IF buy_a THEN out ELSE 0
      out_b == IF buy_a THEN 0 ELSE out
  IN IF ~has_admin(w) THEN Fail("NotInitialized", w, NoObs)
     ELSE IF ~can_transfer(w, buy_token, Pool, out) THEN Fail("TokenError", w, NoObs)
     ELSE Done(put_reserves(transfer(w, buy_token, Pool, to, out),
                            get_balance_a(w) - out_a, get_balance_b(w) - out_b),
               <<0, 0>>, NoObs)

swap(w, to, buy_a, out, in_max) ==
  IF ~has_admin(w) THEN Fail("NotInitialized", w, NoObs)
  ELSE
  LET reserve_a == w.storage.reserve_a
      reserve_b == w.storage.reserve_b
      reserve_sell == IF buy_a THEN reserve_b ELSE reserve_a
      reserve_buy == IF buy_a THEN reserve_a ELSE reserve_b
      o1 == [NoObs EXCEPT !.reserve_a = reserve_a, !.reserve_b = reserve_b]
  IN IF (reserve_buy - out) * 997 = 0 THEN Fail("DivisionByZero", w, o1)
     ELSE
     LET sell == sell_amount(reserve_sell, reserve_buy, out)
         o2 == [o1 EXCEPT !.amount = sell]
         sell_token == IF buy_a THEN "b" ELSE "a"
     IN IF over_max(sell, in_max) THEN Fail("SlippageExceeded", w, o2)
        ELSE
        LET w1 == Step(w, "transfer_from")
        IN IF ~can_transfer(w1, sell_token, to, sell) THEN Fail("TokenError", w1, o2)
           ELSE
           LET w2 == Step(transfer(w1, sell_token, to, Pool, sell), "get_balance")
               balance_a == get_balance_a(w2)
               balance_b == get_balance_b(w2)
               out_a == IF buy_a THEN out ELSE 0
               out_b == IF buy_a THEN 0 ELSE out
               new_inv_a == new_invariant_factor(balance_a, reserve_a, out_a)
               new_inv_b == new_invariant_factor(balance_b, reserve_b, out_b)
               old_inv_a == 1000 * reserve_a
               old_inv_b == 1000 * reserve_b
               o3 == [o2 EXCEPT !.balance_a = balance_a, !.balance_b = balance_b,
                                !.new_inv_a = new_inv_a, !.new_inv_b = new_inv_b]
           IN IF ~invariant_holds(new_inv_a, new_inv_b, old_inv_a, old_inv_b)
              THEN Fail("InvariantViolated", w2, o3)
              ELSE
              LET w3 == Step(w2, "transfer")
                  buy_token == IF buy_a THEN "a" ELSE "b"
              IN IF ~can_transfer(w3, buy_token, Pool, out)
                 THEN Fail("TokenError", w3, o3)
                 ELSE Done(put_reserves(transfer(w3, buy_token, Pool, to, out),
                                        balance_a - out_a, balance_b - out_b),
                           <<sell, 0>>, o3)

\* ---------------------------------------------------------------- withdraw
\* "Before actual changes were made to the pool, update total rewards data
\* and refresh user reward"
withdraw_rewards(w, t, to) == update_user_reward(update_rewards_data(w, t), to)

\* the payout rounded up instead of down
withdraw_amount_ceil(balance, balance_shares, total_shares) ==
  Quot(balance * balance_shares + total_shares - 1, total_shares)

\* the payout divided by the wrong share count
withdraw_amount_wrong_divisor(balance, balance_shares, total_shares) ==
  IF balance_shares = 0 THEN 0 ELSE Quot(balance * balance_shares, balance_shares)

\* "Now calculate the withdraw amounts" (total_shares is not zero here)
withdraw_amount(balance, balance_shares, total_shares) ==
  Quot(balance * balance_shares, total_shares)

withdraw(w, t, to, share_amount, min_a, min_b) ==
  IF ~has_admin(w) THEN Fail("NotInitialized", w, NoObs)
  ELSE
  LET w1 == Step(withdraw_rewards(w, t, to), "transfer_from")
  IN IF ~can_transfer(w1, "s", to, share_amount) THEN Fail("TokenError", w1, NoObs)
     ELSE
     LET w2 == Step(transfer(w1, "s", to, Pool, share_amount), "get_balance")
         balance_a == get_balance_a(w2)
         balance_b == get_balance_b(w2)
         balance_shares == get_balance_shares(w2)
         total_shares == get_total_shares(w2)
         o1 == [NoObs EXCEPT !.balance_a = balance_a, !.balance_b = balance_b,
                             !.balance_shares = balance_shares,
                             !.total_shares = total_shares]
     IN IF total_shares = 0 THEN Fail("DivisionByZero", w2, o1)
        ELSE
        LET out_a == withdraw_amount(balance_a, balance_shares, total_shares)
            out_b == withdraw_amount(balance_b, balance_shares, total_shares)
        IN IF out_a < min_a \/ out_b < min_b THEN Fail("MinNotSatisfied", w2, o1)
           ELSE
           LET w3 == Step(burn_shares(w2, balance_shares), "transfer")
               w4 == Step(transfer(w3, "a", Pool, to, out_a), "transfer")
               w5 == transfer(w4, "b", Pool, to, out_b)
           IN Done(put_reserves(w5, balance_a - out_a, balance_b - out_b),
                   <<out_a, out_b>>, o1)

\* ------------------------------------------------------ set_rewards_config
\* expired_at and the ledger timestamp are u64: their difference traps when
\* it would be negative, and the division traps when it is zero
set_rewards_config(w, t, admin, expired_at, amount) ==
  IF admin # w.storage.admin THEN Fail("Unauthorized", w, NoObs)
  ELSE
  LET w1 == update_rewards_data(w, t)
  IN IF expired_at < t THEN Fail("ArithmeticOverflow", w1, NoObs)
     ELSE IF expired_at = t THEN Fail("DivisionByZero", w1, NoObs)
     ELSE Done(Step([w1 EXCEPT !.storage.config =
                                  [tps |-> Quot(amount, expired_at - t),
                                   expired_at |-> expired_at]],
                    "set_pool_reward_config"),
               <<0, 0>>, NoObs)

\* ------------------------------------------------------------------- claim
\* claim(user): settle (global), settle_user, zero the claimable balance and
\* pay the previous value out of the reward funding balance
claim_reward(w, t, user) ==
  LET w1 == update_user_reward(update_rewards_data(w, t), user)
      reward == w1.storage.user_data[user].to_claim
      w2 == Step([w1 EXCEPT !.storage.user_data[user].to_claim = 0], "transfer")
  IN IF ~can_transfer(w2, "r", Fund, reward)
     THEN Fail("TokenError", w2, [NoObs EXCEPT !.amount = reward])
     ELSE Done(transfer(w2, "r", Fund, user, reward), <<reward, 0>>,
               [NoObs EXCEPT !.amount = reward])

claim(w, t, user) ==
  IF ~has_admin(w) THEN Fail("NotInitialized", w, NoObs)
  ELSE claim_reward(w, t, user)

\* -------------------------------------------------------- estimate_swap_out
\* the quote without the rounding step
estimate_swap_out_floor(w, buy_a, out) ==
  LET reserve_sell == IF buy_a THEN w.storage.reserve_b ELSE w.storage.reserve_a
      reserve_buy == IF buy_a THEN w.storage.reserve_a ELSE w.storage.reserve_b
  IN IF ~has_admin(w) THEN Fail("NotInitialized", w, NoObs)
     ELSE IF (reserve_buy - out) * 997 = 0 THEN Fail("DivisionByZero", w, NoObs)
     ELSE Done(w, <<sell_amount_floor(reserve_sell, reserve_buy, out), 0>>, NoObs)

\* the quote: the same n, d and sell_amount as swap, from the stored reserves,
\* with no transfer, no check and nothing written
estimate_swap_out(w, buy_a, out) ==
  IF ~has_admin(w) THEN Fail("NotInitialized", w, NoObs)
  ELSE
  LET reserve_a == w.storage.reserve_a
      reserve_b == w.storage.reserve_b
      reserve_sell == IF buy_a THEN reserve_b ELSE reserve_a
      reserve_buy == IF buy_a THEN reserve_a ELSE reserve_b
      o1 == [NoObs EXCEPT !.reserve_a = reserve_a, !.reserve_b = reserve_b]
  IN IF (reserve_buy - out) * 997 = 0 THEN Fail("DivisionByZero", w, o1)
     ELSE LET sell == sell_amount(reserve_sell, reserve_buy, out)
          IN Done(w, <<sell, 0>>, [o1 EXCEPT !.amount = sell])

\* -------------------------------------------------------- get_rewards_info
\* the two reward updates deposit and withdraw make, then the map built from
\* the config read before them and the records they return
get_rewards_info(w, t, user) ==
  IF ~has_admin(w) THEN Fail("NotInitialized", w, NoObs)
  ELSE
  LET config == w.storage.config
      w1 == update_user_reward(update_rewards_data(w, t), user)
      pool_data == w1.storage.pool_data
      user_data == w1.storage.user_data[user]
      info == [tps |-> config.tps, exp_at |-> config.expired_at,
               acc |-> pool_data.accumulated, last_time |-> pool_data.last_time,
               pool_acc |-> user_data.pool_accumulated, block |-> pool_data.block,
               usr_block |-> user_data.last_block, to_claim |-> user_data.to_claim]
  IN Done(w1, <<user_data.to_claim, 0>>, [NoObs EXCEPT !.info = info])

\* --------------------------------------------------------- get_user_reward
\* the preview that reports the stored balance without settling
get_user_reward_stored(w, t, user) ==
  Done(w, <<w.storage.user_data[user].to_claim, 0>>, NoObs)

\* preview(user): settle (global) and the delta computation on a copy; no
\* record is written
get_amount_to_claim(w, t, user) ==
  update_user_reward(update_rewards_data(w, t), user).storage.user_data[user].to_claim

get_user_reward(w, t, user) ==
  IF ~has_admin(w) THEN Fail("NotInitialized", w, NoObs)
  ELSE LET reward == get_amount_to_claim(w, t, user)
       IN Done(Step(w, "get_amount_to_claim"), <<reward, 0>>,
               [NoObs EXCEPT !.amount = reward])

\* ------------------------------------------------------- host invocation
\* a trap that keeps what the invocation wrote before it
commit_partial(w, r) == r.w

\* A panic traps the invocation and the host reverts everything it wrote;
\* a return commits it
commit(w, r) == IF r.err = "none" THEN r.w ELSE w

\* what a call finds: the pool's stored reserves, its balances on the ledgers,
\* the share supply, and the caller's shares and reward record
Found(to) ==
  [reserve_a |-> storage.reserve_a, reserve_b |-> storage.reserve_b,
   balance_a |-> ledger.bal["a"][Pool], balance_b |-> ledger.bal["b"][Pool],
   pool_shares |-> ledger.bal["s"][Pool], total_shares |-> ledger.total_shares,
   user_shares |-> IF to \in Users THEN ledger.bal["s"][to] ELSE 0,
   user_data |-> IF to \in Users THEN storage.user_data[to] ELSE NoUserData,
   pool_data |-> storage.pool_data]

NoPre ==
  [reserve_a |-> 0, reserve_b |-> 0, balance_a |-> 0, balance_b |-> 0,
   pool_shares |-> 0, total_shares |-> 0, user_shares |-> 0,
   user_data |-> NoUserData,
   pool_data |-> [block |-> 0, accumulated |-> 0, last_time |-> 0]]

NoDep == [ok |-> FALSE, to |-> "none", amount_a |-> 0, amount_b |-> 0, minted |-> 0,
          synced |-> FALSE]

\* the deposit that has just returned, if the latest call was one
JustDeposited ==
  IF last.op = "deposit" /\ last.err = "none"
  THEN [ok |-> TRUE, to |-> last.to, amount_a |-> last.ret[1],
        amount_b |-> last.ret[2],
        minted |-> ledger.total_shares - last.pre.total_shares,
        synced |-> /\ last.pre.balance_a = last.pre.reserve_a
                   /\ last.pre.balance_b = last.pre.reserve_b
                   /\ last.pre.pool_shares = 0]
  ELSE NoDep

NoPrior == [ok |-> FALSE, op |-> "none", ret |-> 0]

\* the call that returned just before this one, when it was the same user's
\* preview before a claim, the same user's claim before a preview, or the quote
\* of the same purchase before a swap
Prior(op, to, buy_a, x) ==
  IF /\ last.err = "none"
     /\ \/ op = "claim" /\ last.op = "get_user_reward" /\ last.to = to
        \/ op = "get_user_reward" /\ last.op = "claim" /\ last.to = to
        \/ /\ op = "swap" /\ last.op = "estimate_swap_out"
           /\ last.buy_a = buy_a /\ last.x = x
  THEN [ok |-> TRUE, op |-> last.op, ret |-> last.ret[1]]
  ELSE NoPrior

NoBudget == [on |-> FALSE, t0 |-> 0, amount |-> 0, accrued |-> 0]

\* the emission account of the installed config: when set_rewards_config
\* returned and with what amount, and the reward accrued pool-wide since, each
\* settlement adding its growth of the accumulator times the shares it found
Budget(op, x, r) ==
  IF r.err # "none" THEN last.budget
  ELSE IF op = "set_rewards_config"
  THEN [on |-> TRUE, t0 |-> now, amount |-> x, accrued |-> 0]
  ELSE [last.budget EXCEPT
          !.accrued = @ + (r.w.storage.pool_data.accumulated
                           - storage.pool_data.accumulated) * ledger.total_shares]

NoCall ==
  [op |-> "none", to |-> "none", buy_a |-> FALSE, x |-> 0, min_a |-> 0, min_b |-> 0,
   err |-> "none", ret |-> <<0, 0>>, obs |-> NoObs, trace |-> <<>>,
   t |-> 0, initialized |-> FALSE, pre |-> NoPre, dep |-> NoDep,
   prior |-> NoPrior, budget |-> NoBudget]

\* the two queries that write nothing
Previews == {"get_user_reward", "estimate_swap_out"}

Invoke(op, to, buy_a, x, min_a, min_b, r) ==
  LET c == commit(World(storage, ledger), r)
  IN /\ steps < MaxSteps \/ op \in Previews
     /\ storage' = c.storage
     /\ ledger' = c.ledger
     /\ steps' = IF storage.admin # "none" /\ op \notin Previews
                 THEN steps + 1 ELSE steps
     /\ last' = [op |-> op, to |-> to, buy_a |-> buy_a, x |-> x,
                 min_a |-> min_a, min_b |-> min_b,
                 err |-> r.err, ret |-> r.ret, obs |-> r.obs, trace |-> r.w.trace,
                 t |-> now, initialized |-> storage.admin # "none",
                 pre |-> Found(to),
                 dep |-> IF op = "withdraw" THEN JustDeposited ELSE NoDep,
                 prior |-> Prior(op, to, buy_a, x),
                 budget |-> Budget(op, x, r)]
     /\ UNCHANGED now

\* ----------------------------------------------------------------- actions
Amounts == 0..MaxAmt
Mins == {0, MaxAmt - 1}

Init ==
  /\ storage = EmptyStorage
  /\ ledger = InitLedger
  /\ now = 0
  /\ steps = 0
  /\ last = NoCall

Initialize ==
  \E token_a \in Addresses, token_b \in Addresses :
    Invoke("initialize", "u1", FALSE, token_a, token_b, 0,
           initialize(World(storage, ledger), "u1", token_a, token_b))

Deposit ==
  \E to \in Users, desired_a \in Amounts, desired_b \in Amounts,
     min \in Mins :
    Invoke("deposit", to, FALSE, 0, min, min,
           deposit(World(storage, ledger), now, to, desired_a, min, desired_b, min))

Swap ==
  \E to \in Users, buy_a \in BOOLEAN, out \in -1..MaxAmt, in_max \in {0, 2 * MaxAmt} :
    Invoke("swap", to, buy_a, out, in_max, 0,
           swap(World(storage, ledger), to, buy_a, out, in_max))

Withdraw ==
  \E to \in Users, share_amount \in Amounts, min_a \in Mins, min_b \in Mins :
    Invoke("withdraw", to, FALSE, share_amount, min_a, min_b,
           withdraw(World(storage, ledger), now, to, share_amount, min_a, min_b))

SetRewardsConfig ==
  \E admin \in Users, expired_at \in 0..(MaxTime + 1), amount \in {-MaxAmt, 2 * MaxAmt} :
    Invoke("set_rewards_config", admin, FALSE, amount, expired_at, 0,
           set_rewards_config(World(storage, ledger), now, admin, expired_at, amount))

Claim ==
  \E user \in Users :
    Invoke("claim", user, FALSE, 0, 0, 0, claim(World(storage, ledger), now, user))

EstimateSwapOut ==
  \E buy_a \in BOOLEAN, out \in -1..MaxAmt :
    Invoke("estimate_swap_out", "none", buy_a, out, 0, 0,
           estimate_swap_out(World(storage, ledger), buy_a, out))

GetRewardsInfo ==
  \E user \in Users :
    Invoke("get_rewards_info", user, FALSE, 0, 0, 0,
           get_rewards_info(World(storage, ledger), now, user))

GetUserReward ==
  \E user \in Users :
    Invoke("get_user_reward", user, FALSE, 0, 0, 0,
           get_user_reward(World(storage, ledger), now, user))

\* a holder sends tokens or pool shares straight to the pool's address
TransferToPool ==
  \E from \in Users, k \in {"a", "b", "s"} :
    /\ steps < MaxSteps
    /\ ledger.bal[k][from] >= 1
    /\ ledger' = transfer(World(storage, ledger), k, from, Pool, 1).ledger
    /\ steps' = steps + 1
    /\ last' = [NoCall EXCEPT !.op = "transfer", !.to = from,
                              !.initialized = storage.admin # "none",
                              !.budget = last.budget]
    /\ UNCHANGED <<storage, now>>

\* the ledger closes and the timestamp moves on
Tick ==
  /\ now < MaxTime
  /\ now' = now + 1
  /\ last' = [NoCall EXCEPT !.op = "tick", !.t = now + 1,
                            !.initialized = storage.admin # "none",
                            !.budget = last.budget]
  /\ UNCHANGED <<storage, ledger, steps>>

Next ==
  \/ Initialize
  \/ Deposit
  \/ Swap
  \/ Withdraw
  \/ SetRewardsConfig
  \/ Claim
  \/ EstimateSwapOut
  \/ GetRewardsInfo
  \/ GetUserReward
  \/ TransferToPool
  \/ Tick

Spec == Init /\ [][Next]_vars

\* ------------------------------------------------------------------ claims
Reached(step) == \E i \in 1..Len(last.trace) : last.trace[i] = step

SwapCalled == last.op = "swap" /\ last.initialized

FoundReserveBuy == IF last.buy_a THEN last.pre.reserve_a ELSE last.pre.reserve_b
FoundReserveSell == IF last.buy_a THEN last.pre.reserve_b ELSE last.pre.reserve_a

\* the fee-adjusted factor of one side, from what the swap found and moved
FeeFactor(reserve, balance, out) ==
  LET delta == balance - reserve - out
  IN 1000 * reserve + (IF delta > 0 THEN 997 * delta ELSE 1000 * delta)

\* the pool's balances once the sold amount has arrived
ArrivedA == last.pre.balance_a + (IF last.buy_a THEN 0 ELSE last.obs.amount)
ArrivedB == last.pre.balance_b + (IF last.buy_a THEN last.obs.amount ELSE 0)

FactorProduct ==
  FeeFactor(last.pre.reserve_a, ArrivedA, IF last.buy_a THEN last.x ELSE 0)
  * FeeFactor(last.pre.reserve_b, ArrivedB, IF last.buy_a THEN 0 ELSE last.x)

OldProduct == (1000 * last.pre.reserve_a) * (1000 * last.pre.reserve_b)

\* C1: every swap that completes satisfies new_factor_a * new_factor_b >=
\* (1000*reserve_a) * (1000*reserve_b); a swap that took the sold amount in and
\* for which the inequality is false fails with InvariantViolated and the
\* stored reserves stay as they were
C1_SwapKeepsProduct ==
  SwapCalled =>
    /\ last.err = "none" => FactorProduct >= OldProduct
    /\ (Reached("get_balance") /\ FactorProduct < OldProduct) =>
         /\ last.err = "InvariantViolated"
         /\ storage.reserve_a = last.pre.reserve_a
         /\ storage.reserve_b = last.pre.reserve_b

\* a swap that bought something has completed
C1_Witness ==
  SwapCalled /\ last.err = "none" /\ last.x > 0 /\ FactorProduct >= OldProduct

\* C2: swap with out >= the buy-side reserve fails with InvalidAmount, before
\* any token transfer is attempted
C2_OutAtLeastReserveRejected ==
  (SwapCalled /\ last.x >= FoundReserveBuy) =>
    last.err = "InvalidAmount" /\ ~Reached("transfer_from")

\* what the pricing rule asks for when 0 < out < reserve_buy
Price(reserve_sell, reserve_buy, out) ==
  ((reserve_sell * out * 1000) \div ((reserve_buy - out) * 997)) + 1

\* C3: a successful swap with 0 < out < reserve_buy returns
\* floor(reserve_sell * out * 1000 / ((reserve_buy - out) * 997)) + 1 and moves
\* exactly that amount of the sold asset from the caller into the pool;
\* reserves (1000, 1000) and out = 100 give 112
C3_SwapCharge ==
  /\ sell_amount(1000, 1000, 100) = 112
  /\ [][(/\ last'.op = "swap" /\ last'.err = "none"
         /\ 0 < last'.x
         /\ last'.x < (IF last'.buy_a THEN storage.reserve_a ELSE storage.reserve_b))
        => LET sold == IF last'.buy_a THEN "b" ELSE "a"
               reserve_sell == IF last'.buy_a THEN storage.reserve_b ELSE storage.reserve_a
               reserve_buy == IF last'.buy_a THEN storage.reserve_a ELSE storage.reserve_b
               charge == Price(reserve_sell, reserve_buy, last'.x)
           IN /\ last'.ret[1] = charge
              /\ ledger.bal[sold][last'.to] - ledger'.bal[sold][last'.to] = charge
              /\ ledger'.bal[sold][Pool] - ledger.bal[sold][Pool] = charge]_vars

\* a swap inside the reserve has completed and charged more than its output
C3_Witness ==
  /\ SwapCalled /\ last.err = "none"
  /\ 0 < last.x /\ last.x < FoundReserveBuy
  /\ last.ret[1] = Price(FoundReserveSell, FoundReserveBuy, last.x)
  /\ last.ret[1] > last.x

\* C4: when the pool's balances equal its stored reserves and
\* 0 < out < reserve_buy, a swap that takes in the computed sell_amount passes
\* the constant product check and completes
C4_RoundingNeverTripsCheck ==
  (/\ SwapCalled
   /\ last.pre.balance_a = last.pre.reserve_a
   /\ last.pre.balance_b = last.pre.reserve_b
   /\ 0 < last.x /\ last.x < FoundReserveBuy
   /\ Reached("get_balance"))
  => last.err = "none"

\* such a swap has gone through on a pool with both reserves positive
C4_Witness ==
  /\ SwapCalled /\ last.err = "none"
  /\ last.pre.balance_a = last.pre.reserve_a
  /\ last.pre.balance_b = last.pre.reserve_b
  /\ 0 < last.x /\ last.x < FoundReserveBuy
  /\ FoundReserveSell > 0

\* C5: a public operation that fails leaves every piece of state as it was:
\* contract storage (admin, tokens, reserves, reward config, accumulator, user
\* reward records) and every token and share balance
C5_FailureChangesNothing ==
  [][last'.err # "none" => (storage' = storage /\ ledger' = ledger)]_vars

\* a withdraw of some shares has failed on its minimum, after its reward
\* settlement and share transfer, and the pool holds none of the shares
C5_Witness ==
  /\ last.op = "withdraw" /\ last.err = "MinNotSatisfied"
  /\ last.x > 0 /\ Reached("update_user_reward") /\ Reached("get_balance")
  /\ ledger.bal["s"][Pool] = last.pre.pool_shares
  /\ ledger.bal["s"][last.to] = last.pre.user_shares

DepositDone == last.op = "deposit" /\ last.err = "none"

\* C6: a successful deposit mints min(floor(balance_a * total_shares /
\* reserve_a), floor(balance_b * total_shares / reserve_b)) - total_shares when
\* total_shares > 0 and both reserves are positive, floor(sqrt(balance_a *
\* balance_b)) when total_shares = 0, and leaves the stored reserves equal to
\* the balances
C6_SharesMinted ==
  DepositDone =>
    LET balance_a == last.pre.balance_a + last.ret[1]
        balance_b == last.pre.balance_b + last.ret[2]
        total == last.pre.total_shares
        minted == ledger.bal["s"][last.to] - last.pre.user_shares
    IN /\ (total > 0 /\ last.pre.reserve_a > 0 /\ last.pre.reserve_b > 0) =>
            minted = Min((balance_a * total) \div last.pre.reserve_a,
                         (balance_b * total) \div last.pre.reserve_b) - total
       /\ total = 0 =>
            (minted * minted <= balance_a * balance_b
             /\ (minted + 1) * (minted + 1) > balance_a * balance_b)
       /\ storage.reserve_a = balance_a
       /\ storage.reserve_b = balance_b

WithdrawTookShares ==
  last.op = "withdraw" /\ Reached("get_balance") /\ last.pre.total_shares > 0

\* C7: with balance_shares the pool's share balance once share_amount has
\* arrived and total_shares the supply, out_x = floor(balance_x * balance_shares
\* / total_shares); the call fails with MinNotSatisfied when out_a < min_a or
\* out_b < min_b; otherwise balance_shares shares are burned, the pool holds no
\* shares and each stored reserve is balance_x - out_x
C7_WithdrawPayout ==
  WithdrawTookShares =>
    LET balance_shares == last.pre.pool_shares + last.x
        total == last.pre.total_shares
        out_a == (last.pre.balance_a * balance_shares) \div total
        out_b == (last.pre.balance_b * balance_shares) \div total
    IN IF out_a < last.min_a \/ out_b < last.min_b
       THEN last.err = "MinNotSatisfied"
       ELSE /\ last.err = "none"
            /\ last.ret = <<out_a, out_b>>
            /\ ledger.total_shares = total - balance_shares
            /\ ledger.bal["s"][Pool] = 0
            /\ storage.reserve_a = last.pre.balance_a - out_a
            /\ storage.reserve_b = last.pre.balance_b - out_b
            /\ ledger.bal["a"][Pool] = last.pre.balance_a - out_a
            /\ ledger.bal["b"][Pool] = last.pre.balance_b - out_b

\* part of the supply has been redeemed, with a payout that had to be rounded
C7_Witness ==
  /\ WithdrawTookShares /\ last.err = "none"
  /\ 0 < last.x /\ last.pre.pool_shares + last.x < last.pre.total_shares
  /\ (last.pre.balance_a * (last.pre.pool_shares + last.x)) % last.pre.total_shares # 0
  /\ last.ret[1] > 0

\* a withdraw of exactly the shares the same user's deposit has just minted
WithdrewTheDeposit ==
  /\ last.op = "withdraw" /\ last.err = "none"
  /\ last.dep.ok /\ last.dep.to = last.to /\ last.x = last.dep.minted

\* C8 as stated: from every reachable pool state, a deposit that accepts
\* (amount_a, amount_b) and mints m shares followed at once by the same user's
\* withdraw of m shares pays out_a <= amount_a and out_b <= amount_b
C8_WithdrawInvertsDeposit ==
  WithdrewTheDeposit =>
    last.ret[1] <= last.dep.amount_a /\ last.ret[2] <= last.dep.amount_b

\* C8 amended: the same, for deposits made while the pool's token balances
\* equal its stored reserves and the pool holds none of its own shares
C8_WithdrawInvertsSyncedDeposit ==
  (WithdrewTheDeposit /\ last.dep.synced) =>
    last.ret[1] <= last.dep.amount_a /\ last.ret[2] <= last.dep.amount_b

\* a second holder has deposited into a funded pool and redeemed the new shares
C8_Witness ==
  /\ WithdrewTheDeposit /\ last.dep.synced
  /\ last.dep.minted > 0
  /\ ledger.total_shares > 0
  /\ last.ret[1] > 0 /\ last.ret[2] > 0

\* the call got past its entry checks (the pool exists, the admin matches)
Entered == last.initialized /\ last.err \notin {"NotInitialized", "Unauthorized"}

FirstSteps(names) ==
  /\ Len(last.trace) >= Len(names)
  /\ \A i \in 1..Len(names) : last.trace[i] = names[i]

\* the caller's reward record was settled against the shares found at entry
UserSettledOnFoundShares ==
  LET rec == storage.user_data[last.to]
  IN /\ rec.pool_accumulated = storage.pool_data.accumulated
     /\ rec.to_claim =
          last.pre.user_data.to_claim
          + last.pre.user_shares
            * (storage.pool_data.accumulated - last.pre.user_data.pool_accumulated)

C10_AccumulatorBounds ==
  /\ [](storage.pool_data.last_time <= Min(now, storage.config.expired_at))
  /\ [][storage'.pool_data.accumulated >= storage.pool_data.accumulated]_vars

\* C11: claim(user) returns exactly the value get_user_reward(user) returned
\* just before it at the same timestamp, and get_user_reward(user) right after
\* the claim, with no time elapsed and nothing in between, returns 0
C11_ClaimPaysThePreview ==
  /\ (last.op = "claim" /\ last.err = "none" /\ last.prior.ok) =>
       last.ret[1] = last.prior.ret
  /\ (last.op = "get_user_reward" /\ last.err = "none" /\ last.prior.ok) =>
       last.ret[1] = 0

\* a holder previewed a reward that accrued since the last settlement, was
\* paid it by the claim that followed, and a preview now reports nothing
C11_Witness ==
  /\ last.op = "claim" /\ last.err = "none" /\ last.prior.ok
  /\ last.ret[1] > 0
  /\ last.pre.user_data.to_claim = 0
  /\ ledger.bal["r"][last.to] = last.ret[1]
  /\ get_user_reward(World(storage, ledger), now, last.to).ret[1] = 0

\* C12: initialize succeeds at most once per pool: on a pool not yet
\* initialized it fails with InvalidOrdering unless token_a < token_b; once an
\* initialize has succeeded every later one, whatever its arguments, fails with
\* AlreadyInitialized and changes nothing; a successful initialize leaves both
\* reserves, the reward rate, the expiration, the accumulated value and the
\* last settled time at 0
C12_InitializeOnce ==
  [][last'.op = "initialize" =>
       IF storage.admin # "none"
       THEN /\ last'.err = "AlreadyInitialized"
            /\ storage' = storage /\ ledger' = ledger
       ELSE IF last'.x < last'.min_a
       THEN /\ last'.err = "none"
            /\ storage'.admin # "none"
            /\ storage'.reserve_a = 0 /\ storage'.reserve_b = 0
            /\ storage'.config = [tps |-> 0, expired_at |-> 0]
            /\ storage'.pool_data.accumulated = 0
            /\ storage'.pool_data.last_time = 0
       ELSE /\ last'.err = "InvalidOrdering"
            /\ storage' = storage /\ ledger' = ledger]_vars

\* a pool that holds reserves was given a well ordered initialize again, and
\* kept its reserves and its shares
C12_Witness ==
  /\ last.op = "initialize" /\ last.initialized
  /\ last.err = "AlreadyInitialized"
  /\ last.x < last.min_a
  /\ storage.reserve_a > 0 /\ storage.reserve_b > 0
  /\ ledger.total_shares > 0

\* C13: get_rewards_info(user) and get_user_reward(user) are read-only: the
\* persisted accumulator (accumulated value, last settled time, update
\* sequence), every persisted user reward record, the reward config, the
\* reserves and the share supply are left as they were
C13_RewardQueriesReadOnly ==
  [][last'.op \in {"get_rewards_info", "get_user_reward"} =>
       /\ storage'.pool_data = storage.pool_data
       /\ storage'.user_data = storage.user_data
       /\ storage'.config = storage.config
       /\ storage'.reserve_a = storage.reserve_a
       /\ storage'.reserve_b = storage.reserve_b
       /\ ledger'.total_shares = ledger.total_shares]_vars

\* C14: a swap whose computed sell_amount exceeds in_max fails with
\* SlippageExceeded before any token is transferred, so every successful
\* swap(to, buy_a, out, in_max) takes at most in_max of the sold asset from the
\* caller
C14_SlippageBound ==
  [][(last'.op = "swap" /\ storage.admin # "none") =>
       LET reserve_sell == IF last'.buy_a THEN storage.reserve_b ELSE storage.reserve_a
           reserve_buy == IF last'.buy_a THEN storage.reserve_a ELSE storage.reserve_b
           sold == IF last'.buy_a THEN "b" ELSE "a"
           in_max == last'.min_a
       IN /\ (/\ (reserve_buy - last'.x) * 997 # 0
               /\ sell_amount(reserve_sell, reserve_buy, last'.x) > in_max) =>
               /\ last'.err = "SlippageExceeded"
               /\ \A i \in 1..Len(last'.trace) : last'.trace[i] # "transfer_from"
               /\ ledger' = ledger
          /\ last'.err = "none" =>
               ledger.bal[sold][last'.to] - ledger'.bal[sold][last'.to] <= in_max]_vars

\* a purchase inside the reserve, priced above the caller's maximum, was
\* refused before the first transfer
C14_Witness ==
  /\ SwapCalled /\ last.err = "SlippageExceeded"
  /\ 0 < last.x /\ last.x < FoundReserveBuy
  /\ FoundReserveSell > 0
  /\ last.obs.amount > last.min_a
  /\ ~Reached("transfer_from")

\* C15: estimate_swap_out quotes what swap charges: whenever swap(to, buy_a,
\* out, in_max) succeeds, the value it returns is the value
\* estimate_swap_out(buy_a, out) returned in the state just before it; and
\* estimate_swap_out changes no state
C15_QuoteIsCharge ==
  [][/\ (/\ last'.op = "swap" /\ last'.err = "none"
          /\ last.op = "estimate_swap_out"
          /\ last.buy_a = last'.buy_a /\ last.x = last'.x) =>
          (last.err = "none" /\ last'.ret[1] = last.ret[1])
     /\ last'.op = "estimate_swap_out" =>
          (storage' = storage /\ ledger' = ledger)]_vars

\* a purchase was quoted, then made at once and charged the quoted amount
C15_Witness ==
  /\ SwapCalled /\ last.err = "none" /\ last.prior.ok
  /\ 0 < last.x /\ last.x < FoundReserveBuy
  /\ last.ret[1] = last.prior.ret
  /\ last.ret[1] > last.x

\* the latest call was given inputs that make a divisor zero: out equal to the
\* buy-side reserve, no shares outstanding at withdraw, expired_at equal to now
DivisorIsZero ==
  /\ last.initialized
  /\ \/ last.op \in {"swap", "estimate_swap_out"} /\ last.x = FoundReserveBuy
     \/ /\ last.op = "withdraw" /\ last.pre.total_shares = 0
        /\ last.x <= last.pre.user_shares /\ last.x >= 0
     \/ /\ last.op = "set_rewards_config" /\ last.to = storage.admin
        /\ last.min_a = last.t

\* C16: division by zero is unreachable: a call of swap, estimate_swap_out,
\* withdraw or set_rewards_config whose inputs would make a divisor zero is
\* rejected by a precondition error (InvalidAmount, MinNotSatisfied, the
\* expiration check) before the division is evaluated
C16_DivisorGuarded ==
  DivisorIsZero =>
    /\ last.err \in {"InvalidAmount", "MinNotSatisfied", "InvalidExpiration"}
    /\ last.err # "DivisionByZero"

\* C17: across any sequence of operations each successful swap leaves the
\* product of the stored reserves no smaller than it found it, reserve_a' *
\* reserve_b' >= reserve_a * reserve_b, and both stored reserves stay
\* non-negative
C17_SwapKeepsReserveProduct ==
  /\ [](storage.reserve_a >= 0 /\ storage.reserve_b >= 0)
  /\ [][(last'.op = "swap" /\ last'.err = "none") =>
          storage'.reserve_a * storage'.reserve_b
            >= storage.reserve_a * storage.reserve_b]_vars

\* a swap on a pool with both reserves positive has taken its fee: the
\* product of the stored reserves grew
C17_Witness ==
  /\ SwapCalled /\ last.err = "none" /\ last.x > 0
  /\ last.pre.reserve_a > 0 /\ last.pre.reserve_b > 0
  /\ storage.reserve_a * storage.reserve_b
       > last.pre.reserve_a * last.pre.reserve_b

\* C18: after every successful deposit, swap or withdraw the stored reserve_a
\* is the pool's token_a balance and the stored reserve_b its token_b balance,
\* also when tokens had been sent to the pool outside these operations
C18_ReservesAreBalances ==
  (last.op \in {"deposit", "swap", "withdraw"} /\ last.err = "none") =>
    /\ storage.reserve_a = ledger.bal["a"][Pool]
    /\ storage.reserve_b = ledger.bal["b"][Pool]

\* a swap on a funded pool that had been sent tokens directly has returned,
\* and the stored reserves have caught up with the balances
C18_Witness ==
  /\ SwapCalled /\ last.err = "none" /\ last.x > 0
  /\ last.pre.reserve_a > 0 /\ last.pre.reserve_b > 0
  /\ \/ last.pre.balance_a > last.pre.reserve_a
     \/ last.pre.balance_b > last.pre.reserve_b
  /\ storage.reserve_a = ledger.bal["a"][Pool]
  /\ storage.reserve_b = ledger.bal["b"][Pool]

\* a deposit or a withdraw has returned on a pool it found with both reserves
\* positive and shares outstanding
FundedPoolChanged ==
  /\ last.op \in {"deposit", "withdraw"} /\ last.err = "none"
  /\ last.pre.reserve_a > 0 /\ last.pre.reserve_b > 0
  /\ last.pre.total_shares > 0

\* C19: a successful deposit or withdraw on a pool with positive reserves and
\* total_shares > 0 does not lower the backing of a share in either asset:
\* reserve_x_after * total_shares_before >= reserve_x_before *
\* total_shares_after for x in {a, b}; and a deposit never mints a negative
\* number of shares
C19_NoDilution ==
  /\ FundedPoolChanged =>
       /\ storage.reserve_a * last.pre.total_shares
            >= last.pre.reserve_a * ledger.total_shares
       /\ storage.reserve_b * last.pre.total_shares
            >= last.pre.reserve_b * ledger.total_shares
  /\ DepositDone =>
       /\ ledger.total_shares >= last.pre.total_shares
       /\ ledger.bal["s"][last.to] >= last.pre.user_shares

\* a deposit into a funded pool whose two proportional estimates differed has
\* minted shares by the smaller one, and a share is now backed by more
C19_Witness ==
  /\ FundedPoolChanged /\ last.op = "deposit"
  /\ ledger.total_shares > last.pre.total_shares
  /\ \/ storage.reserve_a * last.pre.total_shares
          > last.pre.reserve_a * ledger.total_shares
     \/ storage.reserve_b * last.pre.total_shares
          > last.pre.reserve_b * ledger.total_shares

\* C20: once set_rewards_config(admin, expired_at, amount) has succeeded at
\* time t0, whatever came before it and whatever deposits, swaps, withdraws
\* and claims follow it, the reward accrued pool-wide after t0 never exceeds
\* amount, and no time before t0 is rewarded at the new rate: what has accrued
\* is at most the rate times the time elapsed since t0
C20_EmissionBudget ==
  (last.budget.on /\ last.budget.amount >= 0) =>
    /\ last.budget.accrued <= last.budget.amount
    /\ last.budget.accrued
         <= storage.config.tps
            * Max(0, Min(now, storage.config.expired_at) - last.budget.t0)
====
